---- MODULE Spec2Model ----
(***************************************************************************)
(* Model of the socrates_comparison data processor of arroyo:             *)
(* backend/socrates_comparison/_data.py.                                   *)
(*                                                                         *)
(* The state is the cache directory on disk (the pickled conjunctions      *)
(* data at _cd_path and the polyjectory data dirs), the module globals     *)
(* _conj/_pj guarded by _conj_lock, the data processor thread (its stop    *)
(* event, its polyjectory archive, the locals of run() and its position)   *)
(* and the request handlers that fetch the pair via _get_conjunctions().   *)
(*                                                                         *)
(* A polyjectory is identified by the unique suffix of its data dir, a     *)
(* positive integer; within one process there is at most one polyjectory   *)
(* object per data dir.  Python's None is modelled by the integer 0.       *)
(***************************************************************************)
EXTENDS Integers, Sequences, FiniteSets, TLC

\* ------------------------------------------------------------------------
\* Bounds of the model.
\* ------------------------------------------------------------------------

\* Number of polyjectory data dirs that can ever be created (dir 1 may be
\* inherited from an earlier run, the others are created by _create_new_conj).
MaxDirs == 3

\* Number of concurrent request handlers.
NumReaders == 1

\* Number of times the process is killed and started again.
MaxCrashes == 1

\* How far (in seconds) beyond MAX_AGE the age of the record is tracked.
MaxExtraAge == 1

\* ------------------------------------------------------------------------
\* Program constants.
\* ------------------------------------------------------------------------

cd_cur_version == 1

MAX_AGE == 4 * 3600

RETRY_DELAY == 10

None == 0

Readers == 1 .. NumReaders

\* Holders of _conj_lock.
NoHolder == -1
WorkerId == 0

AgeCap == MAX_AGE + MaxExtraAge

Min(a, b) == IF a <= b THEN a ELSE b

\* ------------------------------------------------------------------------
\* conjunction_data and the file at _cd_path.
\* ------------------------------------------------------------------------

\* conjunction_data(): the dataclass with its defaults, i.e. the empty data.
\* 'df' identifies the dataframe: 0 is the empty dataframe, k > 0 is the
\* dataframe computed together with the polyjectory of data dir k.
conjunction_data(version, df, pj_dir_name) ==
    [version |-> version, df |-> df, pj_dir_name |-> pj_dir_name]

EmptyConj == conjunction_data(cd_cur_version, 0, None)

\* The file at _cd_path: absent, partially written (truncated by open() or
\* not loadable by pickle.load()), or a complete pickle of a conjunction_data.
NoFile == [kind |-> "absent", data |-> EmptyConj]
PartialFile == [kind |-> "partial", data |-> EmptyConj]
PickleOf(cd) == [kind |-> "ok", data |-> cd]

\* The files an earlier run (possibly of an older version of the program)
\* can have left at _cd_path when the process starts; a complete one was
\* written some time ago.
InitFiles ==
    { NoFile,
      PartialFile,
      PickleOf(conjunction_data(cd_cur_version, 1, 1)),
      PickleOf(conjunction_data(cd_cur_version - 1, 1, 1)),
      PickleOf(conjunction_data(cd_cur_version, 1, None)) }

VARIABLES
    cd_file,      \* the file at _cd_path
    cd_age,       \* seconds since the mtime of _cd_path (0 if there is no file)
    cache_dirs,   \* the polyjectory data dirs present in _cache_dir
    locked_dirs,  \* the data dirs whose rmtree() fails at present
    conj,         \* the global _conj
    pj,           \* the global _pj (None or a polyjectory)
    conj_lock,    \* the holder of _conj_lock
    stop_event,   \* _data_processor._stop_event
    pj_archive,   \* _data_processor._pj_archive: sequence of [wr, path]
    pc,           \* position of the process / of the data processor thread
    exc,          \* the exception being propagated or handled in run()
    sleep_time,   \* local sleep_time of run() (None outside the fresh branch)
    cdata,        \* local cdata of run()
    run_pj,       \* local pj of run() (None while unbound)
    wait_t,       \* timeout of the _stop_event.wait() in progress (None if none)
    rpc,          \* position of each request handler
    held,         \* the pair each request handler got from _get_conjunctions()
    next_dir,     \* the next unused data dir suffix
    crashes,      \* number of process restarts so far
    params,       \* the body of the request being handled (NoRequest if none)
    ret           \* what the request got back (NoResponse if nothing yet)

vars == << cd_file, cd_age, cache_dirs, locked_dirs, conj, pj, conj_lock, stop_event,
           pj_archive, pc, exc, sleep_time, cdata, run_pj, wait_t, rpc, held,
           next_dir, crashes, params, ret >>

disk == << cd_file, cd_age, cache_dirs, locked_dirs >>
registry == << conj, pj >>
locals == << sleep_time, cdata, run_pj, wait_t >>
readers == << rpc, held >>
handler == << params, ret >>

\* The data processor models leave the body and the answer of the requests
\* out: a request is its call of _get_conjunctions().  They are the subject
\* of ReqSpec below.
NoRequest == [begin |-> -1]

\* What a request gets back: the HTTP status, the exception that ended the
\* request if one did, and of the body of rows_response the fields 'rows'
\* and 'tot_nrows'.
Response(status, error, rows, tot_nrows) ==
    [status |-> status, error |-> error, rows |-> rows,
     tot_nrows |-> tot_nrows]

NoResponse == Response(0, "", << >>, 0)

NoHeld == [conj |-> EmptyConj, pj |-> None]

\* ------------------------------------------------------------------------
\* Process start: module import and thread construction.
\* ------------------------------------------------------------------------

Init ==
    /\ cd_file \in InitFiles
    /\ cd_age = IF cd_file.kind = "ok" THEN 1 ELSE 0
    /\ cache_dirs \in SUBSET {1}
    /\ locked_dirs = {}
    /\ conj = EmptyConj
    /\ pj = None
    /\ conj_lock = NoHolder
    /\ stop_event = FALSE
    /\ pj_archive = << >>
    /\ pc = "init_setup"
    /\ exc = "none"
    /\ sleep_time = None
    /\ cdata = EmptyConj
    /\ run_pj = None
    /\ wait_t = None
    /\ rpc = [r \in Readers |-> "idle"]
    /\ held = [r \in Readers |-> NoHeld]
    /\ next_dir = 2
    /\ crashes = 0
    /\ params = NoRequest
    /\ ret = NoResponse

\* The load of _conj_init_setup() raises: the file cannot be unpickled, the
\* version check or the assertion on pj_dir_name fails.
LoadRaises(f) ==
    \/ f.kind # "ok"
    \/ f.data.version # cd_cur_version
    \/ f.data.pj_dir_name = None

\* Mutant of ConjInitSetup: the except clause returns the empty data but
\* does not unlink _cd_path.
ConjInitSetupKeepsFile ==
    /\ pc = "init_setup"
    /\ IF cd_file.kind = "absent"
       THEN /\ conj' = EmptyConj
            /\ pj' = None
       ELSE \E mount_ok \in BOOLEAN :
              IF /\ ~LoadRaises(cd_file)
                 /\ cd_file.data.pj_dir_name \in cache_dirs
                 /\ mount_ok
              THEN /\ conj' = cd_file.data
                   /\ pj' = cd_file.data.pj_dir_name
              ELSE /\ conj' = EmptyConj
                   /\ pj' = None
    /\ pc' = "ctor"
    /\ UNCHANGED << disk, conj_lock, stop_event, pj_archive, exc, locals,
                    readers, next_dir, crashes, handler >>

\* Mutant of ConjInitSetup: the version of the loaded data is not checked.
ConjInitSetupNoVersionCheck ==
    /\ pc = "init_setup"
    /\ IF cd_file.kind = "absent"
       THEN /\ conj' = EmptyConj
            /\ pj' = None
            /\ UNCHANGED cd_file
       ELSE \E mount_ok \in BOOLEAN :
              IF /\ cd_file.kind = "ok"
                 /\ cd_file.data.pj_dir_name # None
                 /\ cd_file.data.pj_dir_name \in cache_dirs
                 /\ mount_ok
              THEN /\ conj' = cd_file.data
                   /\ pj' = cd_file.data.pj_dir_name
                   /\ UNCHANGED cd_file
              ELSE /\ cd_file' = NoFile
                   /\ conj' = EmptyConj
                   /\ pj' = None
    /\ cd_age' = IF cd_file'.kind = "absent" THEN 0 ELSE cd_age
    /\ pc' = "ctor"
    /\ UNCHANGED << cache_dirs, locked_dirs, conj_lock, stop_event,
                    pj_archive, exc, locals, readers, next_dir, crashes,
                    handler >>

\* Mutant of ConjInitSetup: the data of a loadable file is returned whether
\* or not its polyjectory can be mounted.
ConjInitSetupNoMountCheck ==
    /\ pc = "init_setup"
    /\ IF cd_file.kind = "absent" \/ LoadRaises(cd_file)
       THEN /\ cd_file' = NoFile
            /\ conj' = EmptyConj
            /\ pj' = None
       ELSE /\ conj' = cd_file.data
            /\ pj' = cd_file.data.pj_dir_name
            /\ UNCHANGED cd_file
    /\ cd_age' = IF cd_file'.kind = "absent" THEN 0 ELSE cd_age
    /\ pc' = "ctor"
    /\ UNCHANGED << cache_dirs, locked_dirs, conj_lock, stop_event,
                    pj_archive, exc, locals, readers, next_dir, crashes,
                    handler >>

\* _conj, _pj = _conj_init_setup()
\* mz.polyjectory.mount() needs the data dir and can still fail on its content.
ConjInitSetup ==
    /\ pc = "init_setup"
    /\ IF cd_file.kind = "absent"
       THEN /\ conj' = EmptyConj
            /\ pj' = None
            /\ UNCHANGED cd_file
       ELSE \E mount_ok \in BOOLEAN :
              IF /\ ~LoadRaises(cd_file)
                 /\ cd_file.data.pj_dir_name \in cache_dirs
                 /\ mount_ok
              THEN /\ conj' = cd_file.data
                   /\ pj' = cd_file.data.pj_dir_name
                   /\ UNCHANGED cd_file
              ELSE /\ cd_file' = NoFile
                   /\ conj' = EmptyConj
                   /\ pj' = None
    /\ cd_age' = IF cd_file'.kind = "absent" THEN 0 ELSE cd_age
    /\ pc' = "ctor"
    /\ UNCHANGED << cache_dirs, locked_dirs, conj_lock, stop_event,
                    pj_archive, exc, locals, readers, next_dir, crashes,
                    handler >>

\* Mutant of DataProcessorInit: the polyjectory mounted at startup is not
\* added to the archive.
DataProcessorInitNoRegister ==
    /\ pc = "ctor"
    /\ stop_event' = FALSE
    /\ pj_archive' = << >>
    /\ pc' = "loop"
    /\ UNCHANGED << disk, registry, conj_lock, exc, locals, readers,
                    next_dir, crashes, handler >>

\* _data_processor.__init__() followed by start().
DataProcessorInit ==
    /\ pc = "ctor"
    /\ stop_event' = FALSE
    /\ pj_archive' = IF pj # None
                     THEN << [wr |-> pj, path |-> pj] >>
                     ELSE << >>
    /\ pc' = "loop"
    /\ UNCHANGED << disk, registry, conj_lock, exc, locals, readers,
                    next_dir, crashes, handler >>

\* ------------------------------------------------------------------------
\* _get_conjunctions() / _set_conjunctions() and the request handlers.
\* ------------------------------------------------------------------------

\* A request handler enters 'with _conj_lock' in _get_conjunctions().
GetAcquire(r) ==
    /\ pc \notin {"init_setup", "ctor"}
    /\ rpc[r] = "idle"
    /\ conj_lock = NoHolder
    /\ conj_lock' = r
    /\ rpc' = [rpc EXCEPT ![r] = "get"]
    /\ UNCHANGED << disk, registry, stop_event, pj_archive, pc, exc, locals,
                    held, next_dir, crashes, handler >>

\* 'return _conj, _pj' under the lock; the handler now holds the pair.
GetReturn(r) ==
    /\ rpc[r] = "get"
    /\ conj_lock = r
    /\ held' = [held EXCEPT ![r] = [conj |-> conj, pj |-> pj]]
    /\ conj_lock' = NoHolder
    /\ rpc' = [rpc EXCEPT ![r] = "holding"]
    /\ UNCHANGED << disk, registry, stop_event, pj_archive, pc, exc, locals,
                    next_dir, crashes, handler >>

\* The handler returns: its references to cdata and pj are dropped.
HandlerReturn(r) ==
    /\ rpc[r] = "holding"
    /\ held' = [held EXCEPT ![r] = NoHeld]
    /\ rpc' = [rpc EXCEPT ![r] = "idle"]
    /\ UNCHANGED << disk, registry, conj_lock, stop_event, pj_archive, pc,
                    exc, locals, next_dir, crashes, handler >>

\* wr() is not None: some strong reference to the polyjectory b exists (the
\* global _pj, the local pj of run(), or a pair held by a request handler).
Referenced(b) ==
    \/ pj = b
    \/ run_pj = b
    \/ \E r \in Readers : rpc[r] = "holding" /\ held[r].pj = b

\* ------------------------------------------------------------------------
\* _data_processor._cache_pj_cleanup()
\* ------------------------------------------------------------------------

\* The first loop: the archive is scanned in order from entry i; 'dirs' are
\* the data dirs still on disk and 'new' the new archive so far.  rmtree()
\* of an expired entry raises if the dir is missing or if its deletion fails
\* (path in 'fails'); the exception leaves the loop at once.
RECURSIVE SweepFrom(_, _, _, _)
SweepFrom(i, dirs, new, fails) ==
    IF i > Len(pj_archive)
    THEN [raised |-> FALSE, dirs |-> dirs, archive |-> new]
    ELSE LET e == pj_archive[i] IN
         IF ~Referenced(e.wr)
         THEN IF e.path \notin dirs \/ e.path \in fails
              THEN [raised |-> TRUE, dirs |-> dirs, archive |-> pj_archive]
              ELSE SweepFrom(i + 1, dirs \ {e.path}, new, fails)
         ELSE SweepFrom(i + 1, dirs, Append(new, e), fails)

\* The set of the paths in an archive.
PathSet(archive) == { archive[i].path : i \in 1 .. Len(archive) }

\* An entry of _cache_dir as the second loop sees it: 'id' tells the entries
\* apart, 'is_dir' is cur_dir.is_dir(), 'prefixed' is
\* dir_name.startswith(_pj_data_prefix).  The data dir d of a polyjectory:
EntryOf(d) == [id |-> d, is_dir |-> TRUE, prefixed |-> TRUE]

\* The file at _cd_path, which is in _cache_dir too.
CdPickle == [id |-> 0, is_dir |-> FALSE, prefixed |-> FALSE]

\* What else _cache_dir can hold: a dir whose name lacks the prefix and a
\* plain file whose name has it.
OtherDir == [id |-> -1, is_dir |-> TRUE, prefixed |-> FALSE]
PrefixedFile == [id |-> -2, is_dir |-> FALSE, prefixed |-> TRUE]

\* _cache_dir.iterdir(), when 'dirs' are the data dirs left by the first loop.
CacheListing(dirs) ==
    { EntryOf(d) : d \in dirs }
        \cup ( IF cd_file.kind # "absent" THEN {CdPickle} ELSE {} )
        \cup {OtherDir, PrefixedFile}

\* Mutant of ScanCandidates: neither of the two 'continue' tests is made.
ScanCandidatesNoFilter(listing) == listing

\* The entries that pass the two 'continue' tests of the second loop.
ScanCandidates(listing) == { e \in listing : e.is_dir /\ e.prefixed }

\* shutil.rmtree(cur_dir) raises: on a path that is not a directory, or on a
\* data dir whose deletion fails.
RmtreeRaises(e, fails) == ~e.is_dir \/ e.id \in fails

\* Mutant of ScanRemoved: the second loop only logs, it removes nothing.
ScanRemovedNone(listing, pj_path_set, fails) == {}

\* The entries the second loop removes.
ScanRemoved(listing, pj_path_set, fails) ==
    { e \in ScanCandidates(listing) :
        e.id \notin pj_path_set /\ ~RmtreeRaises(e, fails) }

\* Mutant of OrphanScan: the test against pj_path_set is missing.
OrphanScanIgnoresArchive(dirs, pj_path_set, fails) ==
    { d \in dirs : d \in fails }

\* Mutant of OrphanScan: the second loop is not run.
OrphanScanSkipped(dirs, pj_path_set, fails) == dirs

\* The second loop: every polyjectory dir not in pj_path_set is removed,
\* unless its rmtree() fails, which is logged and ignored.
OrphanScan(dirs, pj_path_set, fails) ==
    dirs \ { e.id : e \in ScanRemoved(CacheListing(dirs), pj_path_set, fails) }

\* Mutant of CachePjCleanup: 'self._pj_archive = new_pj_archive' is missing.
CachePjCleanupKeepsArchive(fails) ==
    LET s == SweepFrom(1, cache_dirs, << >>, fails) IN
    IF s.raised
    THEN s
    ELSE [raised |-> FALSE,
          dirs |-> OrphanScan(s.dirs, PathSet(s.archive), fails),
          archive |-> pj_archive]

\* The whole method, for the set 'fails' of the dirs whose deletion fails.
CachePjCleanup(fails) ==
    LET s == SweepFrom(1, cache_dirs, << >>, fails) IN
    IF s.raised
    THEN s
    ELSE [raised |-> FALSE,
          dirs |-> OrphanScan(s.dirs, PathSet(s.archive), fails),
          archive |-> s.archive]

\* The entries of _cache_dir the method deletes: the dirs of the expired
\* entries in the first loop, then what the second loop removes.
CleanupRemoved(fails) ==
    LET s == SweepFrom(1, cache_dirs, << >>, fails)
        swept == { EntryOf(d) : d \in cache_dirs \ s.dirs }
    IN  IF s.raised
        THEN swept
        ELSE swept \cup ScanRemoved(CacheListing(s.dirs), PathSet(s.archive),
                                    fails)

\* A call of the method from run(): 'ok' is the position after it, 'ko' the
\* position an exception raised by it leads to.
CleanupCall(ok, ko) ==
    LET c == CachePjCleanup(locked_dirs) IN
    /\ cache_dirs' = c.dirs
    /\ locked_dirs' = {}
    /\ pj_archive' = c.archive
    /\ pc' = IF c.raised THEN ko ELSE ok
    /\ exc' = IF c.raised THEN "cleanup" ELSE exc

\* ------------------------------------------------------------------------
\* _data_processor.run()
\* ------------------------------------------------------------------------

\* Python truthiness of conj_age: None and 0 are false.
Truthy(x) == x # None /\ x # 0

\* Mutant of LoopEntry: 'while True', the stop event is not looked at.
LoopEntryIgnoresStop ==
    /\ pc = "loop"
    /\ LET conj_age == IF cd_file.kind # "absent" THEN cd_age ELSE None IN
       IF Truthy(conj_age) /\ conj_age < MAX_AGE
       THEN /\ sleep_time' = MAX_AGE - conj_age
            /\ pc' = "fresh_cleanup"
       ELSE /\ sleep_time' = None
            /\ pc' = "create"
    /\ exc' = "none"
    /\ UNCHANGED << disk, registry, conj_lock, stop_event, pj_archive, cdata,
                    run_pj, wait_t, readers, next_dir, crashes, handler >>

\* Mutant of LoopEntry: fresh data always sleeps for the whole MAX_AGE.
LoopEntrySleepsMaxAge ==
    /\ pc = "loop"
    /\ IF stop_event
       THEN /\ pc' = "final_cleanup"
            /\ sleep_time' = None
       ELSE LET conj_age == IF cd_file.kind # "absent" THEN cd_age ELSE None IN
            IF Truthy(conj_age) /\ conj_age < MAX_AGE
            THEN /\ sleep_time' = MAX_AGE
                 /\ pc' = "fresh_cleanup"
            ELSE /\ sleep_time' = None
                 /\ pc' = "create"
    /\ exc' = "none"
    /\ UNCHANGED << disk, registry, conj_lock, stop_event, pj_archive, cdata,
                    run_pj, wait_t, readers, next_dir, crashes, handler >>

\* The loop condition and the freshness test of one iteration.
LoopEntry ==
    /\ pc = "loop"
    /\ IF stop_event
       THEN /\ pc' = "final_cleanup"
            /\ sleep_time' = None
       ELSE LET conj_age == IF cd_file.kind # "absent" THEN cd_age ELSE None IN
            IF Truthy(conj_age) /\ conj_age < MAX_AGE
            THEN /\ sleep_time' = MAX_AGE - conj_age
                 /\ pc' = "fresh_cleanup"
            ELSE /\ sleep_time' = None
                 /\ pc' = "create"
    /\ exc' = "none"
    /\ UNCHANGED << disk, registry, conj_lock, stop_event, pj_archive, cdata,
                    run_pj, wait_t, readers, next_dir, crashes, handler >>

\* Fresh data: cleanup, then wait(sleep_time).
FreshCleanup ==
    /\ pc = "fresh_cleanup"
    /\ CleanupCall("fresh_wait", "except")
    /\ wait_t' = IF pc' = "fresh_wait" THEN sleep_time ELSE None
    /\ UNCHANGED << cd_file, cd_age, registry, conj_lock, stop_event,
                    sleep_time, cdata, run_pj, readers, next_dir, crashes,
                    handler >>

\* Mutant of WaitReturns: the wait always lasts its whole timeout.
WaitReturnsIgnoresStop ==
    /\ wait_t # None
    /\ cd_age' = IF cd_file.kind = "absent"
                 THEN cd_age
                 ELSE Min(cd_age + wait_t, AgeCap)
    /\ wait_t' = None
    /\ pc' = "loop"
    /\ UNCHANGED << cd_file, cache_dirs, locked_dirs, registry, conj_lock,
                    stop_event, pj_archive, exc, sleep_time, cdata, run_pj,
                    readers, next_dir, crashes, handler >>

\* _stop_event.wait(t) returns: at once if the event is set, else after t
\* seconds, by which the record has aged.
WaitReturns ==
    /\ wait_t # None
    /\ cd_age' = IF stop_event \/ cd_file.kind = "absent"
                 THEN cd_age
                 ELSE Min(cd_age + wait_t, AgeCap)
    /\ wait_t' = None
    /\ pc' = "loop"
    /\ UNCHANGED << cd_file, cache_dirs, locked_dirs, registry, conj_lock,
                    stop_event, pj_archive, exc, sleep_time, cdata, run_pj,
                    readers, next_dir, crashes, handler >>

FreshWait == pc = "fresh_wait" /\ WaitReturns

\* _create_new_conj() returns and the schema assertion passes: a new
\* polyjectory with a new data dir, and the new cdata built from it.
CreateNewConj ==
    /\ pc = "create"
    /\ next_dir <= MaxDirs
    /\ cache_dirs' = cache_dirs \cup {next_dir}
    /\ run_pj' = next_dir
    /\ cdata' = conjunction_data(cd_cur_version, next_dir, next_dir)
    /\ next_dir' = next_dir + 1
    /\ pc' = "open"
    /\ UNCHANGED << cd_file, cd_age, locked_dirs, registry, conj_lock,
                    stop_event, pj_archive, exc, sleep_time, wait_t, readers,
                    crashes, handler >>

\* Mutant of CreateNewConjRaises: the call is inside the try block whose
\* except clause unlinks _cd_path.
CreateNewConjRaisesInBlock ==
    /\ pc = "create"
    /\ exc' = "create"
    /\ pc' = "inner_except"
    /\ UNCHANGED << disk, registry, conj_lock, stop_event, pj_archive, locals,
                    readers, next_dir, crashes, handler >>

\* _create_new_conj() raises, before or after it built the polyjectory;
\* in the latter case the data dir stays on disk.
CreateNewConjRaises ==
    /\ pc = "create"
    /\ \/ UNCHANGED << cache_dirs, next_dir >>
       \/ /\ next_dir <= MaxDirs
          /\ cache_dirs' = cache_dirs \cup {next_dir}
          /\ next_dir' = next_dir + 1
    /\ exc' = "create"
    /\ pc' = "except"
    /\ UNCHANGED << cd_file, cd_age, locked_dirs, registry, conj_lock,
                    stop_event, pj_archive, locals, readers, crashes,
                    handler >>

\* _create_new_conj() returns and 'assert df.schema == _conj_df_schema'
\* fails: the local pj is bound to the new polyjectory already.
SchemaMismatch ==
    /\ pc = "create"
    /\ next_dir <= MaxDirs
    /\ cache_dirs' = cache_dirs \cup {next_dir}
    /\ run_pj' = next_dir
    /\ next_dir' = next_dir + 1
    /\ exc' = "schema"
    /\ pc' = "except"
    /\ UNCHANGED << cd_file, cd_age, locked_dirs, registry, conj_lock,
                    stop_event, pj_archive, sleep_time, cdata, wait_t, readers,
                    crashes, handler >>

\* open(_cd_path, "wb"): truncates the file, or raises leaving it as it was.
OpenCd ==
    /\ pc = "open"
    /\ \/ /\ cd_file' = PartialFile
          /\ cd_age' = 0
          /\ pc' = "dump"
          /\ UNCHANGED exc
       \/ /\ exc' = "persist"
          /\ pc' = "inner_except"
          /\ UNCHANGED << cd_file, cd_age >>
    /\ UNCHANGED << cache_dirs, locked_dirs, registry, conj_lock, stop_event,
                    pj_archive, locals, readers, next_dir, crashes, handler >>

\* Mutant of DumpCd: pickle.dump() is outside the try block, its exception
\* goes straight to the except clause of the loop.
DumpCdOutsideTry ==
    /\ pc = "dump"
    /\ \/ /\ cd_file' = PickleOf(cdata)
          /\ cd_age' = 0
          /\ pc' = "register"
          /\ UNCHANGED exc
       \/ /\ exc' = "persist"
          /\ pc' = "except"
          /\ UNCHANGED << cd_file, cd_age >>
    /\ UNCHANGED << cache_dirs, locked_dirs, registry, conj_lock, stop_event,
                    pj_archive, locals, readers, next_dir, crashes, handler >>

\* Mutant of DumpCd: an error of the write is swallowed and the block goes on.
DumpCdSwallowsError ==
    /\ pc = "dump"
    /\ \/ /\ cd_file' = PickleOf(cdata)
          /\ cd_age' = 0
       \/ UNCHANGED << cd_file, cd_age >>
    /\ pc' = "register"
    /\ UNCHANGED << cache_dirs, locked_dirs, registry, conj_lock, stop_event,
                    pj_archive, exc, locals, readers, next_dir, crashes,
                    handler >>

\* pickle.dump(cdata, f) and the close of the file: the file is complete, or
\* the write raises and leaves a partial file.
DumpCd ==
    /\ pc = "dump"
    /\ \/ /\ cd_file' = PickleOf(cdata)
          /\ cd_age' = 0
          /\ pc' = "register"
          /\ UNCHANGED exc
       \/ /\ exc' = "persist"
          /\ pc' = "inner_except"
          /\ UNCHANGED << cd_file, cd_age >>
    /\ UNCHANGED << cache_dirs, locked_dirs, registry, conj_lock, stop_event,
                    pj_archive, locals, readers, next_dir, crashes, handler >>

\* Mutant of RegisterPj: the polyjectory is appended to the archive twice.
RegisterPjTwice ==
    /\ pc = "register"
    /\ pj_archive' = pj_archive \o << [wr |-> run_pj, path |-> run_pj],
                                      [wr |-> run_pj, path |-> run_pj] >>
    /\ pc' = "set_lock"
    /\ UNCHANGED << disk, registry, conj_lock, stop_event, exc, locals,
                    readers, next_dir, crashes, handler >>

\* Mutant of RegisterPj: the append to the archive is missing.
RegisterPjSkipped ==
    /\ pc = "register"
    /\ pc' = "set_lock"
    /\ UNCHANGED << disk, registry, conj_lock, stop_event, pj_archive, exc,
                    locals, readers, next_dir, crashes, handler >>

\* self._pj_archive.append((weakref.ref(pj), pj.data_dir))
RegisterPj ==
    /\ pc = "register"
    /\ pj_archive' = Append(pj_archive, [wr |-> run_pj, path |-> run_pj])
    /\ pc' = "set_lock"
    /\ UNCHANGED << disk, registry, conj_lock, stop_event, exc, locals,
                    readers, next_dir, crashes, handler >>

\* An exception in the try block after the file was written, before or
\* after the registration in the archive.
BlockRaises ==
    /\ pc \in {"register", "set_lock"}
    /\ exc' = "persist"
    /\ pc' = "inner_except"
    /\ UNCHANGED << disk, registry, conj_lock, stop_event, pj_archive, locals,
                    readers, next_dir, crashes, handler >>

\* Mutant of SetAcquire: _set_conjunctions() assigns without taking the lock.
SetAcquireNoLock ==
    /\ pc = "set_lock"
    /\ pc' = "set_conj"
    /\ UNCHANGED << disk, registry, conj_lock, stop_event, pj_archive, exc,
                    locals, readers, next_dir, crashes, handler >>

\* _set_conjunctions(): 'with _conj_lock'.
SetAcquire ==
    /\ pc = "set_lock"
    /\ conj_lock = NoHolder
    /\ conj_lock' = WorkerId
    /\ pc' = "set_conj"
    /\ UNCHANGED << disk, registry, stop_event, pj_archive, exc, locals,
                    readers, next_dir, crashes, handler >>

\* Mutant of SetConj: the 'with _conj_lock' block ends after the first of the
\* two assignments.
SetConjReleasesLock ==
    /\ pc = "set_conj"
    /\ conj' = cdata
    /\ conj_lock' = NoHolder
    /\ pc' = "set_pj"
    /\ UNCHANGED << disk, pj, stop_event, pj_archive, exc, locals,
                    readers, next_dir, crashes, handler >>

\* _conj = new_conj
SetConj ==
    /\ pc = "set_conj"
    /\ conj' = cdata
    /\ pc' = "set_pj"
    /\ UNCHANGED << disk, pj, conj_lock, stop_event, pj_archive, exc, locals,
                    readers, next_dir, crashes, handler >>

\* Mutant of SetPj: the lock is not released when _set_conjunctions() returns.
SetPjKeepsLock ==
    /\ pc = "set_pj"
    /\ pj' = run_pj
    /\ pc' = "post_cleanup"
    /\ UNCHANGED << disk, conj, conj_lock, stop_event, pj_archive, exc, locals,
                    readers, next_dir, crashes, handler >>

\* _pj = new_pj, and the lock is released.
SetPj ==
    /\ pc = "set_pj"
    /\ pj' = run_pj
    /\ conj_lock' = NoHolder
    /\ pc' = "post_cleanup"
    /\ UNCHANGED << disk, conj, stop_event, pj_archive, exc, locals, readers,
                    next_dir, crashes, handler >>

\* Mutant of InnerExcept: the exception is re-raised without the unlink.
InnerExceptNoUnlink ==
    /\ pc = "inner_except"
    /\ pc' = "except"
    /\ UNCHANGED << disk, registry, conj_lock, stop_event, pj_archive, exc,
                    locals, readers, next_dir, crashes, handler >>

\* The inner except clause: _cd_path.unlink(missing_ok=True), then raise.
InnerExcept ==
    /\ pc = "inner_except"
    /\ cd_file' = NoFile
    /\ cd_age' = 0
    /\ pc' = "except"
    /\ UNCHANGED << cache_dirs, locked_dirs, registry, conj_lock, stop_event,
                    pj_archive, exc, locals, readers, next_dir, crashes,
                    handler >>

\* After the assignment: cleanup, then wait(MAX_AGE).
PostCleanup ==
    /\ pc = "post_cleanup"
    /\ CleanupCall("post_wait", "except")
    /\ wait_t' = IF pc' = "post_wait" THEN MAX_AGE ELSE None
    /\ UNCHANGED << cd_file, cd_age, registry, conj_lock, stop_event,
                    sleep_time, cdata, run_pj, readers, next_dir, crashes,
                    handler >>

PostWait == pc = "post_wait" /\ WaitReturns

\* The outer except clause: cleanup, then wait(10).  An exception raised by
\* this cleanup is not caught by anything: it ends the thread.
\* Mutant of OuterExcept: the except clause of the loop also unlinks the
\* file at _cd_path.
OuterExceptUnlinks ==
    /\ pc = "except"
    /\ CleanupCall("retry_wait", "died")
    /\ wait_t' = IF pc' = "retry_wait" THEN RETRY_DELAY ELSE None
    /\ cd_file' = NoFile
    /\ UNCHANGED << cd_age, registry, conj_lock, stop_event,
                    sleep_time, cdata, run_pj, readers, next_dir, crashes,
                    handler >>

OuterExcept ==
    /\ pc = "except"
    /\ CleanupCall("retry_wait", "died")
    /\ wait_t' = IF pc' = "retry_wait" THEN RETRY_DELAY ELSE None
    /\ UNCHANGED << cd_file, cd_age, registry, conj_lock, stop_event,
                    sleep_time, cdata, run_pj, readers, next_dir, crashes,
                    handler >>

RetryWait == pc = "retry_wait" /\ WaitReturns

\* The final cleanup after the loop; run() then returns.
FinalCleanup ==
    /\ pc = "final_cleanup"
    /\ CleanupCall("done", "died")
    /\ UNCHANGED << cd_file, cd_age, registry, conj_lock, stop_event, locals,
                    readers, next_dir, crashes, handler >>

\* _data_processor._stop(), called by the lifespan at shutdown.
Stop ==
    /\ pc \notin {"init_setup", "ctor"}
    /\ ~stop_event
    /\ stop_event' = TRUE
    /\ UNCHANGED << disk, registry, conj_lock, pj_archive, pc, exc, locals,
                    readers, next_dir, crashes, handler >>

\* ------------------------------------------------------------------------
\* The environment: time and process restarts.
\* ------------------------------------------------------------------------

\* Time passes: the record gets older.  Its age is read by the freshness
\* test only, so the time that passed is accounted for right before it.
Tick ==
    /\ pc = "loop"
    /\ cd_file.kind = "ok"
    /\ \E a \in {1, MAX_AGE - 1, MAX_AGE, AgeCap} :
         /\ a > cd_age
         /\ cd_age' = a
    /\ UNCHANGED << cd_file, cache_dirs, locked_dirs, registry, conj_lock,
                    stop_event, pj_archive, pc, exc, locals, readers, next_dir,
                    crashes, handler >>

\* Some data dirs cannot be deleted for now (their files are still mapped
\* or open, or the file system refuses): rmtree() on them will fail.  Only
\* _cache_pj_cleanup() deletes dirs, so this is decided right before it.
CleanupPcs == {"fresh_cleanup", "post_cleanup", "except", "final_cleanup"}

Contention ==
    /\ pc \in CleanupPcs
    /\ locked_dirs = {}
    /\ \E s \in SUBSET cache_dirs :
         /\ s # {}
         /\ locked_dirs' = s
    /\ UNCHANGED << cd_file, cd_age, cache_dirs, registry, conj_lock,
                    stop_event, pj_archive, pc, exc, locals, readers, next_dir,
                    crashes, handler >>

\* The process is killed at any point and started again: the disk stays as
\* it is, everything in memory is lost, the module is imported again.
Crash ==
    /\ crashes < MaxCrashes
    /\ crashes' = crashes + 1
    /\ conj' = EmptyConj
    /\ pj' = None
    /\ conj_lock' = NoHolder
    /\ stop_event' = FALSE
    /\ pj_archive' = << >>
    /\ pc' = "init_setup"
    /\ exc' = "none"
    /\ sleep_time' = None
    /\ cdata' = EmptyConj
    /\ run_pj' = None
    /\ wait_t' = None
    /\ rpc' = [r \in Readers |-> "idle"]
    /\ held' = [r \in Readers |-> NoHeld]
    /\ locked_dirs' = {}
    /\ UNCHANGED << cd_file, cd_age, cache_dirs, next_dir, handler >>

Next ==
    \/ ConjInitSetup
    \/ DataProcessorInit
    \/ \E r \in Readers : GetAcquire(r)
    \/ \E r \in Readers : GetReturn(r)
    \/ \E r \in Readers : HandlerReturn(r)
    \/ LoopEntry
    \/ FreshCleanup
    \/ FreshWait
    \/ CreateNewConj
    \/ CreateNewConjRaises
    \/ SchemaMismatch
    \/ OpenCd
    \/ DumpCd
    \/ RegisterPj
    \/ BlockRaises
    \/ SetAcquire
    \/ SetConj
    \/ SetPj
    \/ InnerExcept
    \/ PostCleanup
    \/ PostWait
    \/ OuterExcept
    \/ RetryWait
    \/ FinalCleanup
    \/ Stop
    \/ Tick
    \/ Contention
    \/ Crash


Spec == Init /\ [][Next]_vars

\* The steps of the data processor thread, i.e. of run().
run ==
    \/ LoopEntry
    \/ FreshCleanup
    \/ FreshWait
    \/ CreateNewConj
    \/ CreateNewConjRaises
    \/ SchemaMismatch
    \/ OpenCd
    \/ DumpCd
    \/ RegisterPj
    \/ BlockRaises
    \/ SetAcquire
    \/ SetConj
    \/ SetPj
    \/ InnerExcept
    \/ PostCleanup
    \/ PostWait
    \/ OuterExcept
    \/ RetryWait
    \/ FinalCleanup

\* The thread is scheduled as long as it can take a step: every call it
\* makes returns or raises, and it does not wait for _conj_lock for ever (a
\* request handler holds the lock for one return statement).  Requests, the
\* passing of time, failing deletions, the stop and the kill of the process
\* are under no obligation to happen.
FairSpec == Spec /\ WF_vars(run)

\* ------------------------------------------------------------------------
\* Steps and states the properties speak of.
\* ------------------------------------------------------------------------

\* A step of the running process (not the restart of a killed one).
SameProcess == pc' # "init_setup"

\* A step that is one whole call of _cache_pj_cleanup().
CleanupStep == pc \in CleanupPcs /\ pc' # pc /\ SameProcess

\* A call of _cache_pj_cleanup() that returns without raising.
CleanupCompletes ==
    \/ pc = "fresh_cleanup" /\ pc' = "fresh_wait"
    \/ pc = "post_cleanup" /\ pc' = "post_wait"
    \/ pc = "except" /\ pc' = "retry_wait"
    \/ pc = "final_cleanup" /\ pc' = "done"

\* The archive has an entry for the polyjectory b.
InArchive(b) == \E i \in 1 .. Len(pj_archive) : pj_archive[i].path = b

\* The positions of run() inside the block that writes the file, registers
\* the polyjectory and assigns the new data, once the write has begun.
InPersistBlock ==
    pc \in {"dump", "register", "set_lock", "set_conj", "set_pj",
            "inner_except"}

\* The thread is past an iteration that failed inside that block.
AfterPersistFailure ==
    exc = "persist" /\ pc \in {"except", "retry_wait", "died"}

\* ------------------------------------------------------------------------
\* Properties.
\* ------------------------------------------------------------------------

\* C1: in the loop of run() a polyjectory is registered in the archive only
\* when the file at _cd_path holds the complete new cdata and the new data is
\* not assigned yet, and _conj/_pj are assigned only when the file holds the
\* complete new cdata and the new polyjectory is in the archive: write, then
\* register, then publish, and no publish without a completed write.
C1_PersistRegisterPublish ==
    [][ /\ ( /\ pc # "ctor"
             /\ SameProcess
             /\ Len(pj_archive') > Len(pj_archive) )
           => /\ cd_file = PickleOf(cdata)
              /\ cdata.pj_dir_name = run_pj
              /\ conj # cdata /\ pj # run_pj
              /\ pj_archive' = Append(pj_archive,
                                      [wr |-> run_pj, path |-> run_pj])
        /\ ( /\ pc # "init_setup"
             /\ SameProcess
             /\ << conj', pj' >> # << conj, pj >> )
           => /\ cd_file = PickleOf(cdata)
              /\ InArchive(run_pj)
              /\ conj' \in {conj, cdata}
              /\ pj' \in {pj, run_pj}
      ]_vars

\* C1 witness: an iteration has written, registered and published new data.
C1_Witness ==
    /\ pc = "post_cleanup"
    /\ conj = cdata /\ conj.df >= 2
    /\ pj = run_pj
    /\ cd_file = PickleOf(cdata)
    /\ InArchive(pj)

\* C2: every step that ends past an iteration that failed in the block
\* leaves _conj and _pj as they were, and past such an iteration there is no
\* file at _cd_path and the pair in _conj/_pj is not the new one.
C2_PersistFailure ==
    [][ (AfterPersistFailure' /\ SameProcess)
           => /\ cd_file' = NoFile
              /\ conj' = conj /\ pj' = pj
              /\ conj' # cdata' /\ pj' # run_pj'
      ]_vars

\* C2 witness: the write failed after it had truncated the file of the data
\* then published; the thread is in its retry sleep.
C2_Witness ==
    /\ AfterPersistFailure
    /\ pc = "retry_wait"
    /\ conj # EmptyConj
    /\ pj # None
    /\ cd_file = NoFile

\* C3: outside the block (and once _conj_init_setup() has run), a file at
\* _cd_path is the complete pickle of the data now in _conj.
C3_CacheStoreInvariant ==
    (pc # "init_setup" /\ ~InPersistBlock /\ cd_file.kind # "absent")
        => cd_file = PickleOf(conj)

\* C3 witness: the thread sleeps after it has published data it computed,
\* and the file holds that data.
C3_Witness ==
    /\ pc = "post_wait"
    /\ conj.df >= 2
    /\ cd_file = PickleOf(conj)

\* C4: the data dir of the polyjectory in _pj, and of the polyjectory of
\* every pair held by a request handler, is on disk.
C4_ReaderIsolation ==
    /\ pj # None => pj \in cache_dirs
    /\ \A r \in Readers :
         (rpc[r] = "holding" /\ held[r].pj # None)
             => held[r].pj \in cache_dirs

\* C4 witness: a handler still holds a polyjectory that has been replaced
\* since, and a cleanup has run after the replacement.
C4_Witness ==
    /\ pc = "post_wait"
    /\ \E r \in Readers :
         /\ rpc[r] = "holding"
         /\ held[r].pj # None
         /\ held[r].pj # pj
         /\ held[r].pj \in cache_dirs

\* An entry of the archive whose weak reference still resolves.
IsAlive(e) == Referenced(e.wr)

\* The paths of the alive entries of the archive.
AlivePaths ==
    { pj_archive[i].path :
        i \in { j \in 1 .. Len(pj_archive) : IsAlive(pj_archive[j]) } }

\* C5: a call of _cache_pj_cleanup() removes the data dir and the archive
\* entry of every polyjectory in the archive that is no longer referenced (it
\* is not in _pj, no handler holds it, and the thread is not still holding it
\* as the new polyjectory of a failed iteration), at least when the deletion
\* of that dir itself does not fail.
C5_Reclamation ==
    [][ CleanupStep
           => \A i \in 1 .. Len(pj_archive) :
                ( /\ ~Referenced(pj_archive[i].wr)
                  /\ pj_archive[i].path \notin locked_dirs )
                    => /\ pj_archive[i].path \notin cache_dirs'
                       /\ pj_archive[i].path \notin PathSet(pj_archive')
      ]_vars

\* C6: a call of _cache_pj_cleanup() deletes every polyjectory dir that is
\* not among the paths of the alive entries of the archive, at least when the
\* deletion of that dir itself does not fail.
C6_OrphanReconciliation ==
    [][ CleanupStep
           => \A d \in cache_dirs :
                (d \notin AlivePaths /\ d \notin locked_dirs)
                    => d \notin cache_dirs'
      ]_vars

\* C7: an iteration that finds a file at _cd_path whose age is below MAX_AGE
\* (zero included) does not call _create_new_conj().
C7_FreshnessIdempotence ==
    [][ ( /\ pc = "loop"
          /\ ~stop_event
          /\ cd_file.kind # "absent"
          /\ cd_age < MAX_AGE
          /\ pc' # pc
          /\ SameProcess )
           => pc' # "create"
      ]_vars

\* C8: the thread has terminated (run() returned, or an exception left it)
\* only if the stop event is set.
C8_NeverTerminatesOnFailure ==
    pc \in {"done", "died"} => stop_event

\* C9: a call of _cache_pj_cleanup() in which the deletion of the dir of an
\* expired entry fails still returns without raising, leaves only the alive
\* entries in the archive, and leaves that dir on disk.
C9_SweepFailureAbsorbed ==
    [][ ( /\ CleanupStep
          /\ \E i \in 1 .. Len(pj_archive) :
               /\ ~IsAlive(pj_archive[i])
               /\ pj_archive[i].path \in locked_dirs )
           => /\ CleanupCompletes
              /\ pj_archive' = SelectSeq(pj_archive, IsAlive)
              /\ \A i \in 1 .. Len(pj_archive) :
                   ( /\ ~IsAlive(pj_archive[i])
                     /\ pj_archive[i].path \in locked_dirs )
                       => pj_archive[i].path \in cache_dirs'
      ]_vars

C11_RetryBackoff ==
    [][ /\ ( /\ pc = "except"
             /\ exc = "create"
             /\ pc' # pc
             /\ SameProcess )
           => /\ pc' = "retry_wait"
              /\ wait_t' = RETRY_DELAY
        /\ ( /\ pc = "loop"
             /\ exc = "create"
             /\ ~stop_event
             /\ pc' # pc
             /\ SameProcess )
           => pc' = "create"
      ]_vars

\* C12: the thread terminates only by a call of _cache_pj_cleanup() that
\* runs after the loop has exited and returns without raising.
C12_FinalCleanupBeforeTermination ==
    [][ ( /\ pc' \in {"done", "died"}
          /\ pc' # pc )
           => /\ pc = "final_cleanup"
              /\ CleanupCompletes
      ]_vars

\* The positions of run() inside a _stop_event.wait(): wait(sleep_time) on
\* fresh data, wait(MAX_AGE) after new data, wait(10) after an exception.
WaitPcs == {"fresh_wait", "post_wait", "retry_wait"}

\* C13: every wait of run() is entered by a call of _cache_pj_cleanup() that
\* returned without raising: it kept exactly the alive entries in the
\* archive, left on disk only dirs of the new archive or dirs whose deletion
\* failed, and removed no dir of the new archive; the wait that follows is
\* the one of the branch (MAX_AGE - age, MAX_AGE, or 10 seconds).
C13_CleanupCadence ==
    [][ (pc' \in WaitPcs /\ pc' # pc)
           => /\ CleanupStep
              /\ CleanupCompletes
              /\ pj_archive' = SelectSeq(pj_archive, IsAlive)
              /\ \A d \in cache_dirs' :
                   d \in PathSet(pj_archive') \/ d \in locked_dirs
              /\ \A d \in cache_dirs :
                   d \in PathSet(pj_archive') => d \in cache_dirs'
              /\ cache_dirs' \subseteq cache_dirs
              /\ pc' = "fresh_wait" => wait_t' = MAX_AGE - cd_age
              /\ pc' = "post_wait" => wait_t' = MAX_AGE
              /\ pc' = "retry_wait" => wait_t' = RETRY_DELAY
      ]_vars

\* C13 witness: the thread is in the 10 seconds wait after a failed
\* _create_new_conj(), and the cleanup before the wait has removed the data
\* dir that the failed call had left.
C13_Witness ==
    /\ pc = "retry_wait"
    /\ wait_t = RETRY_DELAY
    /\ exc = "create"
    /\ next_dir = 3
    /\ 2 \notin cache_dirs

\* C14: the pair a request handler gets from _get_conjunctions() is the pair
\* in _conj/_pj at a moment at which no assignment of _set_conjunctions() is
\* half done: the data names the polyjectory of the pair (or the pair is the
\* empty data with no polyjectory), the data dir of the polyjectory is on
\* disk, and the pair is not the one run() is still writing, registering or
\* has failed to write.
C14_NoPartialPublication ==
    [][ \A r \in Readers :
          (rpc[r] = "get" /\ rpc'[r] = "holding")
             => /\ held'[r] = [conj |-> conj, pj |-> pj]
                /\ pc \notin {"set_conj", "set_pj"}
                /\ held'[r].conj.pj_dir_name = held'[r].pj
                /\ held'[r].pj = None => held'[r].conj = EmptyConj
                /\ held'[r].pj # None => held'[r].pj \in cache_dirs
                /\ ( \/ pc \in {"open", "dump", "register", "set_lock",
                                "inner_except"}
                     \/ exc = "persist" )
                      => /\ held'[r].conj # cdata
                         /\ held'[r].pj # run_pj
      ]_vars

\* C14 witness: while run() is in the middle of writing the file of new
\* data, a handler holds the pair with the polyjectory assigned before.
C14_Witness ==
    /\ pc = "dump"
    /\ \E r \in Readers :
         /\ rpc[r] = "holding"
         /\ held[r].conj = conj
         /\ held[r].pj = pj
         /\ pj # None
         /\ conj # cdata

\* C15: _conj_lock is held by the thread only at the two assignments of
\* _set_conjunctions() (never while it computes, writes or unlinks the file,
\* registers, cleans up or waits) and by a request handler only at the
\* 'return _conj, _pj' of _get_conjunctions(); whoever holds the lock can
\* take its next step, which needs nothing but the lock it holds.
C15_LockOnlyForPointerCopy ==
    /\ conj_lock = WorkerId
          => /\ pc \in {"set_conj", "set_pj"}
             /\ wait_t = None
             /\ ENABLED (SetConj \/ SetPj)
    /\ \A r \in Readers :
         /\ conj_lock = r <=> rpc[r] = "get"
         /\ conj_lock = r => ENABLED GetReturn(r)
    /\ conj_lock \in {NoHolder, WorkerId} \cup Readers

\* C15 witness: the thread holds the lock between its two assignments while
\* a request handler still uses the pair it got before.
C15_Witness ==
    /\ pc = "set_pj"
    /\ conj_lock = WorkerId
    /\ \E r \in Readers : rpc[r] = "holding" /\ held[r].conj # conj

\* The thread is in, or past, the except clause of an iteration that failed
\* in _create_new_conj() or in the assertion on the schema.
AfterComputeFailure ==
    exc \in {"create", "schema"} /\ pc \in {"except", "retry_wait", "died"}

\* C16: a failure of _create_new_conj() or of the schema assertion leads to
\* the outer except clause, and no step up to the wait of that clause changes
\* _conj, _pj or the file at _cd_path (its presence, content and mtime).
C16_ComputeFailureFrame ==
    [][ /\ (AfterComputeFailure' /\ SameProcess)
            => /\ conj' = conj
               /\ pj' = pj
               /\ cd_file' = cd_file
               /\ cd_age' = cd_age
        /\ ( /\ pc = "create"
             /\ pc' \notin {"create", "open"}
             /\ SameProcess )
            => /\ pc' = "except"
               /\ exc' \in {"create", "schema"}
      ]_vars

\* C16 witness: the schema assertion failed in an iteration that had found
\* stale data; the thread is in the 10 seconds wait, the data assigned before
\* and its file are still there.
C16_Witness ==
    /\ pc = "retry_wait"
    /\ exc = "schema"
    /\ conj # EmptyConj
    /\ cd_file = PickleOf(conj)
    /\ pj = conj.pj_dir_name
    /\ pj \in cache_dirs

\* C17: once the stop event is set, the loop condition lets no iteration
\* start (the thread goes to the final cleanup); the loop is left nowhere
\* but at its condition, so an iteration under way when the event is set is
\* not cut short; and setting the event changes nothing else.
C17_StopSemantics ==
    [][ /\ ( /\ pc = "loop"
             /\ stop_event
             /\ pc' # pc
             /\ SameProcess )
            => pc' = "final_cleanup"
        /\ (pc' = "final_cleanup" /\ pc' # pc)
            => /\ pc = "loop"
               /\ stop_event
        /\ (~stop_event /\ stop_event')
            => UNCHANGED << disk, registry, conj_lock, pj_archive, pc, exc,
                            locals, readers, next_dir, crashes, handler >>
      ]_vars

\* C17 witness: the stop event was set while an iteration was under way, and
\* the iteration has gone on to assign the new data.
C17_Witness ==
    /\ stop_event
    /\ pc = "set_pj"
    /\ conj = cdata
    /\ cd_file = PickleOf(cdata)

\* C18: with the stop event set, a wait of run() returns at once (no time
\* has passed when it returns) and _create_new_conj() is not called from a
\* wait, from the loop condition or from the final cleanup; and once the
\* event is set the thread of that process eventually terminates, given that
\* it is scheduled and that the calls it has under way return.
C18_StopResponsiveness ==
    /\ [][ /\ ( /\ stop_event
                /\ pc \in WaitPcs
                /\ pc' # pc
                /\ SameProcess )
               => /\ pc' = "loop"
                  /\ cd_age' = cd_age
           /\ ( /\ stop_event
                /\ pc \in WaitPcs \cup {"loop", "final_cleanup", "done", "died"}
                /\ SameProcess )
               => pc' \notin {"create", "open"}
         ]_vars
    /\ [](stop_event => <>(pc \in {"done", "died"} \/ ~stop_event))

\* C18 witness: the thread has assigned new data, the stop event has cut its
\* MAX_AGE wait short (the file is no older than when it was written) and
\* run() has returned.
C18_Witness ==
    /\ pc = "done"
    /\ stop_event
    /\ crashes = 0
    /\ conj.df >= 2
    /\ cd_file = PickleOf(conj)
    /\ cd_age = 0

\* C19: in a process started after the previous one was killed (at whatever
\* point of run()), once _conj_init_setup() has run either _conj is exactly
\* the data in the file at _cd_path and _pj is the polyjectory that data
\* names, mounted on a data dir that is on disk, or there is no file and
\* _conj/_pj are the empty data and None.
C19_CrashConsistency ==
    (crashes > 0 /\ pc = "ctor")
        => \/ /\ cd_file = PickleOf(conj)
              /\ conj.version = cd_cur_version
              /\ pj # None
              /\ pj = conj.pj_dir_name
              /\ pj \in cache_dirs
           \/ /\ cd_file = NoFile
              /\ conj = EmptyConj
              /\ pj = None

\* C19 witness: the previous process was killed after _create_new_conj() had
\* made a data dir and before the file of the new data was complete; the
\* new process has found no usable file and starts from the empty data.
C19_Witness ==
    /\ crashes > 0
    /\ pc = "ctor"
    /\ cd_file = NoFile
    /\ conj = EmptyConj
    /\ pj = None
    /\ 2 \in cache_dirs

\* C20: __init__() leaves in the archive exactly one entry, for the
\* polyjectory mounted at startup, or no entry if there is none; and no call
\* of _cache_pj_cleanup() removes the data dir or the archive entry of a
\* polyjectory that is in _pj or held by a request handler.
C20_BootstrapRegistration ==
    [][ /\ (pc = "ctor" /\ pc' = "loop")
            => /\ pj # None
                   => pj_archive' = << [wr |-> pj, path |-> pj] >>
               /\ pj = None => pj_archive' = << >>
               /\ pj' = pj
        /\ CleanupStep
            => \A b \in cache_dirs :
                 ( \/ pj = b
                   \/ \E r \in Readers : rpc[r] = "holding" /\ held[r].pj = b )
                     => /\ b \in cache_dirs'
                        /\ b \in PathSet(pj_archive')
      ]_vars

\* C20 witness: the polyjectory of the data dir inherited from an earlier
\* run was mounted at startup, the first cleanup of the thread has run, and
\* the data dir and the archive entry are still there.
C20_Witness ==
    /\ crashes = 0
    /\ pc = "fresh_wait"
    /\ pj = 1
    /\ 1 \in cache_dirs
    /\ pj_archive = << [wr |-> 1, path |-> 1] >>

\* The first loop of a call of _cache_pj_cleanup() made now would raise.
SweepRaises == SweepFrom(1, cache_dirs, << >>, locked_dirs).raised

\* The polyjectory dirs on disk that no entry of the archive has as path.
Orphans == { d \in cache_dirs : d \notin PathSet(pj_archive) }

\* C21: a deletion that fails in the second loop of _cache_pj_cleanup() is
\* not an error (the call returns, the dir stays, the other dirs outside the
\* archive are removed in the same call), and a dir outside the archive is
\* attempted again by every later call: every call removes it unless its
\* deletion fails again.
C21_OrphanFailureTolerated ==
    [][ CleanupStep
           => /\ ( /\ ~SweepRaises
                   /\ Orphans \cap locked_dirs # {} )
                  => /\ CleanupCompletes
                     /\ \A d \in Orphans :
                          d \in cache_dirs' <=> d \in locked_dirs
              /\ \A d \in Orphans :
                   d \notin locked_dirs => d \notin cache_dirs'
      ]_vars

\* C22: the durations of the three waits of run().  With fresh data of age a
\* (a < MAX_AGE) the thread waits for exactly MAX_AGE - a, which is positive;
\* after it published new data it waits for MAX_AGE; after an exception it
\* waits for 10 seconds; MAX_AGE is 4 * 3600 seconds.
C22_SleepDurations ==
    /\ MAX_AGE = 14400
    /\ pc = "fresh_wait" => /\ cd_age < MAX_AGE
                            /\ wait_t = MAX_AGE - cd_age
                            /\ wait_t > 0
    /\ pc = "post_wait" => wait_t = MAX_AGE
    /\ pc = "retry_wait" => wait_t = 10

\* The thread waits for one second on data one second short of MAX_AGE.
C22_Witness ==
    /\ pc = "fresh_wait"
    /\ cd_age = MAX_AGE - 1
    /\ wait_t = 1

\* C23: single writer.  Within one process, after the module's import has
\* built them, (_conj, _pj) changes only in the two assignments of
\* _set_conjunctions(), made by the thread under _conj_lock; the file at
\* _cd_path is created, rewritten or deleted only by _conj_init_setup() and
\* by the persist block of run() (its open/dump and the unlink of its except
\* clause); _pj_archive changes only in __init__(), in the append of the
\* persist block and in _cache_pj_cleanup(); the steps of a get() of a handler
\* change none of the three.
C23_SingleWriter ==
    [][ /\ ( /\ registry' # registry
             /\ SameProcess
             /\ pc # "init_setup" )
           => /\ pc \in {"set_conj", "set_pj"}
              /\ conj_lock = WorkerId
        /\ cd_file' # cd_file
           => pc \in {"init_setup", "open", "dump", "inner_except"}
        /\ ( pj_archive' # pj_archive /\ SameProcess )
           => pc \in {"ctor", "register"} \cup CleanupPcs
        /\ ( readers' # readers /\ SameProcess )
           => UNCHANGED << conj, pj, cd_file, pj_archive >>
      ]_vars

\* New data was written, registered and published, and a handler has got it.
C23_Witness ==
    /\ pc = "post_cleanup"
    /\ pj = run_pj
    /\ pj > 1
    /\ cd_file = PickleOf(conj)
    /\ InArchive(pj)
    /\ \E r \in Readers : held[r].pj = pj

\* C24: after a failure inside the persist block of run(), the next call of
\* _cache_pj_cleanup() (the one of the except clause of the loop) removes the
\* data dir of the polyjectory the iteration created, whether the append to
\* _pj_archive had been made or not, provided the call returns and the
\* deletion of that dir does not fail.
C24_FailedBundleCollected ==
    [][ ( /\ pc = "except"
          /\ exc = "persist"
          /\ CleanupStep
          /\ CleanupCompletes
          /\ run_pj \notin locked_dirs )
           => run_pj \notin cache_dirs'
      ]_vars

\* C25: after a call of _cache_pj_cleanup() that returns, _pj_archive holds
\* exactly the entries it had before the call whose weak reference is alive,
\* in the order they had; an entry of the archive does not keep its
\* polyjectory alive: an entry whose polyjectory is neither _pj, nor the local
\* pj of run(), nor in the hands of a handler (see Referenced) is gone.
C25_SweepResult ==
    [][ ( CleanupStep /\ CleanupCompletes )
           => /\ pj_archive' = SelectSeq(pj_archive, IsAlive)
              /\ \A i \in 1 .. Len(pj_archive) :
                   ~IsAlive(pj_archive[i])
                      => \A j \in 1 .. Len(pj_archive') :
                           pj_archive'[j].path # pj_archive[i].path
      ]_vars

\* A cleanup dropped the entry in the middle of the archive: the first entry
\* is kept by a handler, the last one is the polyjectory just published.
C25_Witness ==
    /\ pc = "post_wait"
    /\ pj = 3
    /\ pj_archive = << [wr |-> 1, path |-> 1], [wr |-> 3, path |-> 3] >>
    /\ \E r \in Readers : rpc[r] = "holding" /\ held[r].pj = 1
    /\ 2 \notin cache_dirs

\* C26: in an iteration that passes the loop condition, _create_new_conj() is
\* called if and only if there is no file at _cd_path or the age of the file
\* is greater than or equal to MAX_AGE (an age of exactly MAX_AGE recomputes).
C26_StalenessDecision ==
    [][ ( /\ pc = "loop"
          /\ ~stop_event
          /\ pc' # pc
          /\ SameProcess )
           => ( pc' = "create"
                  <=> ( cd_file.kind = "absent" \/ cd_age >= MAX_AGE ) )
      ]_vars

\* The record at _cd_path is absent or stale: the next freshness test of
\* run() cannot take the fresh branch.
Stale == cd_file.kind = "absent" \/ cd_age >= MAX_AGE

\* A step in which a computation or a write of the record fails:
\* _create_new_conj() raises or returns a dataframe of the wrong schema, or
\* the persist block raises.
RefreshFails ==
    \/ pc = "create" /\ pc' = "except"
    \/ pc' = "inner_except" /\ pc # "inner_except"

\* New data was written, registered and assigned: run() is right after
\* _set_conjunctions(cdata, pj) and the record is fresh.
Published ==
    /\ pc = "post_cleanup"
    /\ conj = cdata
    /\ conj # EmptyConj
    /\ pj = run_pj
    /\ cd_file = PickleOf(conj)
    /\ cd_age < MAX_AGE

\* C27: with the thread scheduled fairly, if the stop event is never set, the
\* process is not killed for good before its thread runs, and from some point
\* on no computation and no write of the record fails, then whenever the
\* record is absent or stale the thread eventually publishes newly computed
\* data: (_conj, _pj) is then not the bootstrap data and the record exists
\* with an age below MAX_AGE.
C27_RefreshLiveness ==
    ( /\ []~stop_event
      /\ []<>(pc \notin {"init_setup", "ctor"})
      /\ [](pc = "create" => next_dir <= MaxDirs)
      /\ <>[][~RefreshFails]_vars )
       => []( Stale => <>Published )

\* C28: a call of _cache_pj_cleanup(), whether it returns or raises, deletes
\* no entry of _cache_dir whose name lacks _pj_data_prefix (the file at
\* _cd_path among them) and no entry that is not a directory: what it removes
\* are polyjectory data dirs, and nothing else of the disk changes; it
\* changes neither _conj nor _pj.
C28_CleanupFrame ==
    [][ CleanupStep
           => LET removed == CleanupRemoved(locked_dirs) IN
              /\ \A e \in removed : e.is_dir /\ e.prefixed
              /\ CdPickle \notin removed
              /\ cache_dirs' = cache_dirs \ { e.id : e \in removed }
              /\ UNCHANGED << cd_file, conj, pj >>
      ]_vars

\* A cleanup removed a data dir outside the archive and left the file at
\* _cd_path and the published data alone.
C28_Witness ==
    /\ pc = "retry_wait"
    /\ exc = "create"
    /\ next_dir = 3
    /\ cache_dirs = {1}
    /\ cd_file.kind = "ok"
    /\ pj = 1

\* C29: whenever a call of _cache_pj_cleanup() starts, every polyjectory that
\* is _pj or that a handler has got from _get_conjunctions() has an entry
\* with its data dir in _pj_archive, so its dir is in pj_path_set and the
\* second loop does not remove it.
C29_ArchiveCoverage ==
    pc \in CleanupPcs
       => /\ pj # None => InArchive(pj)
          /\ \A r \in Readers :
               ( rpc[r] = "holding" /\ held[r].pj # None )
                  => /\ InArchive(held[r].pj)
                     /\ held[r].pj \in OrphanScan(cache_dirs,
                                                  PathSet(pj_archive), {})

\* The cleanup after a publication starts while a handler still has the
\* polyjectory published before.
C29_Witness ==
    /\ pc = "post_cleanup"
    /\ pj = 2
    /\ \E r \in Readers : rpc[r] = "holding" /\ held[r].pj = 1
    /\ InArchive(1)
    /\ InArchive(2)

\* _conj and _pj agree: either there is no polyjectory and _conj is the empty
\* data (no pj_dir_name, empty dataframe), or there is one and
\* _conj.pj_dir_name is the last component of its data dir.
PairAgrees ==
    IF pj = None
    THEN conj = EmptyConj
    ELSE conj.pj_dir_name = pj

\* C30, as claimed: _conj and _pj agree in every reachable state.
C30_RegistryPair == PairAgrees

\* C30, amended: _conj and _pj agree in every reachable state in which the
\* thread does not hold _conj_lock, i.e. is not between the two assignments
\* of _set_conjunctions(); these are the states _get_conjunctions() can read.
C30_RegistryPairUnlocked == conj_lock # WorkerId => PairAgrees

\* New data was published and the lock is free again.
C30_Witness ==
    /\ pc = "post_cleanup"
    /\ conj_lock = NoHolder
    /\ pj = 2
    /\ conj = conjunction_data(cd_cur_version, 2, 2)

\* C31: in every reachable state in which the thread is in one of its waits
\* and there is a file at _cd_path, the file is a complete record that has a
\* pj_dir_name, and the data dir of that name exists in _cache_dir (a restart
\* at that point finds a dir to mount).
C31_RecordBundle ==
    ( pc \in WaitPcs /\ cd_file.kind # "absent" )
       => /\ cd_file.kind = "ok"
          /\ cd_file.data.pj_dir_name # None
          /\ cd_file.data.pj_dir_name \in cache_dirs

\* The thread waits after it wrote the record of a newly computed
\* polyjectory, whose data dir is on disk.
C31_Witness ==
    /\ pc = "post_wait"
    /\ cd_file = PickleOf(conjunction_data(cd_cur_version, 2, 2))
    /\ 2 \in cache_dirs
    /\ 1 \notin cache_dirs

\* C32: no two entries of _pj_archive ever have the same path, and a call of
\* _cache_pj_cleanup(), which removes the dirs of the expired entries, leaves
\* the data dir of every entry that is alive on disk.
C32_ArchiveUnique ==
    /\ \A i, j \in 1 .. Len(pj_archive) :
         pj_archive[i].path = pj_archive[j].path => i = j
    /\ pc \in CleanupPcs
         => \A i \in 1 .. Len(pj_archive) :
              ( IsAlive(pj_archive[i]) /\ pj_archive[i].path \in cache_dirs )
                 => pj_archive[i].path \in CachePjCleanup(locked_dirs).dirs

\* A cleanup starts with an expired entry and an alive one in the archive,
\* the dirs of both on disk.
C32_Witness ==
    /\ pc = "post_cleanup"
    /\ pj_archive = << [wr |-> 1, path |-> 1], [wr |-> 2, path |-> 2] >>
    /\ ~Referenced(1)
    /\ Referenced(2)
    /\ {1, 2} \subseteq cache_dirs

\* C33: right after a call of _cache_pj_cleanup() that returns and in which
\* no deletion fails, the polyjectory data dirs in _cache_dir are exactly the
\* paths of the entries of the archive (all of them alive); if no handler
\* holds a polyjectory, these are at most the data dir of _pj and the one the
\* local pj of run() is bound to (which differs from _pj only when the last
\* iteration that built a polyjectory failed to publish it).
C33_DiskBounded ==
    [][ ( /\ CleanupStep
          /\ CleanupCompletes
          /\ locked_dirs = {} )
           => /\ cache_dirs' = PathSet(pj_archive')
              /\ \A i \in 1 .. Len(pj_archive') : IsAlive(pj_archive'[i])
              /\ ( \A r \in Readers : rpc[r] # "holding" )
                    => /\ cache_dirs' \subseteq {pj, run_pj}
                       /\ Cardinality(cache_dirs') <= 2
      ]_vars

\* After a cleanup that returned, the disk holds the dir of the published
\* polyjectory and the dir of one that was registered but not published.
C33_Witness ==
    /\ pc = "retry_wait"
    /\ exc = "persist"
    /\ pj = 2
    /\ run_pj = 3
    /\ cache_dirs = {2, 3}
    /\ PathSet(pj_archive) = {2, 3}
    /\ \A r \in Readers : rpc[r] # "holding"

\* ------------------------------------------------------------------------
\* The earlier worker, public_conjunctions/_data.py.
\*
\* It has its own file (_conj_path), its own _conj and _conj_lock and its own
\* thread, and no polyjectories.  It is a program of its own, specified by
\* PubSpec over the same variables: cd_file and cd_age are the file at
\* _conj_path and its age, conj is its _conj, next_dir numbers the dataframes
\* its _create_new_conj() returns; cache_dirs, locked_dirs, pj, pj_archive and
\* run_pj are not used and stay as they start.
\* ------------------------------------------------------------------------

\* A dataframe whose schema is not _conj_schema (a file of an older release).
BadSchemaDf == -1

\* df.schema == _conj_schema
PubSchemaOk(df) == df # BadSchemaDf

\* The dataclass conjunction_data of public_conjunctions: df 0 is the empty
\* dataframe, df k > 0 the k-th computed one.
PubConjunctionData(n_missed_conj, df) ==
    [n_missed_conj |-> n_missed_conj, df |-> df]

PubEmptyConj == PubConjunctionData(0, 0)

PubNoFile == [kind |-> "absent", data |-> PubEmptyConj]
PubPartialFile == [kind |-> "partial", data |-> PubEmptyConj]
PubPickleOf(cd) == [kind |-> "ok", data |-> cd]

PubNoHeld == [conj |-> PubEmptyConj, pj |-> None]

\* The files an earlier run that ended in an orderly way can have left.
PubInitFiles ==
    { PubNoFile,
      PubPickleOf(PubConjunctionData(0, 1)),
      PubPickleOf(PubConjunctionData(0, BadSchemaDf)) }

PubInit ==
    /\ cd_file \in PubInitFiles
    /\ cd_age = IF cd_file.kind = "ok" THEN 1 ELSE 0
    /\ cache_dirs = {}
    /\ locked_dirs = {}
    /\ conj = PubEmptyConj
    /\ pj = None
    /\ conj_lock = NoHolder
    /\ stop_event = FALSE
    /\ pj_archive = << >>
    /\ pc = "init_setup"
    /\ exc = "none"
    /\ sleep_time = None
    /\ cdata = PubEmptyConj
    /\ run_pj = None
    /\ wait_t = None
    /\ rpc = [r \in Readers |-> "idle"]
    /\ held = [r \in Readers |-> PubNoHeld]
    /\ next_dir = 2
    /\ crashes = 0
    /\ params = NoRequest
    /\ ret = NoResponse

\* What no step of the earlier worker touches.
pub_unused == << cache_dirs, locked_dirs, pj, pj_archive, run_pj >>

\* '_conj = _conj_init_setup()' at import.  pickle.load() is not guarded: on
\* a file that cannot be unpickled the import raises and the process does
\* not start.  A dataframe of another schema is unlinked and replaced by the
\* empty data.
PubConjInitSetup ==
    /\ pc = "init_setup"
    /\ IF cd_file.kind = "absent"
       THEN /\ conj' = PubEmptyConj
            /\ pc' = "loop"
            /\ UNCHANGED << cd_file, cd_age >>
       ELSE IF cd_file.kind = "partial"
       THEN /\ pc' = "import_failed"
            /\ UNCHANGED << cd_file, cd_age, conj >>
       ELSE IF ~PubSchemaOk(cd_file.data.df)
       THEN /\ cd_file' = PubNoFile
            /\ cd_age' = 0
            /\ conj' = PubEmptyConj
            /\ pc' = "loop"
       ELSE /\ conj' = cd_file.data
            /\ pc' = "loop"
            /\ UNCHANGED << cd_file, cd_age >>
    /\ UNCHANGED << pub_unused, conj_lock, stop_event, exc, sleep_time, cdata,
                    wait_t, readers, next_dir, crashes, handler >>

\* A request handler enters 'with _conj_lock' in _get_conjunctions().
PubGetAcquire(r) ==
    /\ pc \notin {"init_setup", "import_failed"}
    /\ rpc[r] = "idle"
    /\ conj_lock = NoHolder
    /\ conj_lock' = r
    /\ rpc' = [rpc EXCEPT ![r] = "get"]
    /\ UNCHANGED << disk, registry, stop_event, pj_archive, pc, exc, locals,
                    held, next_dir, crashes, handler >>

\* 'return _conj' under the lock.
PubGetReturn(r) ==
    /\ rpc[r] = "get"
    /\ conj_lock = r
    /\ held' = [held EXCEPT ![r] = [conj |-> conj, pj |-> None]]
    /\ conj_lock' = NoHolder
    /\ rpc' = [rpc EXCEPT ![r] = "holding"]
    /\ UNCHANGED << disk, registry, stop_event, pj_archive, pc, exc, locals,
                    next_dir, crashes, handler >>

\* The handler returns.
PubHandlerReturn(r) ==
    /\ rpc[r] = "holding"
    /\ held' = [held EXCEPT ![r] = PubNoHeld]
    /\ rpc' = [rpc EXCEPT ![r] = "idle"]
    /\ UNCHANGED << disk, registry, conj_lock, stop_event, pj_archive, pc,
                    exc, locals, next_dir, crashes, handler >>

\* The loop condition and the freshness test; on fresh data the thread goes
\* straight to wait(sleep_time).
PubLoopEntry ==
    /\ pc = "loop"
    /\ IF stop_event
       THEN /\ pc' = "done"
            /\ UNCHANGED << sleep_time, wait_t >>
       ELSE LET conj_age == IF cd_file.kind # "absent" THEN cd_age ELSE None IN
            IF Truthy(conj_age) /\ conj_age < MAX_AGE
            THEN /\ sleep_time' = MAX_AGE - conj_age
                 /\ wait_t' = MAX_AGE - conj_age
                 /\ pc' = "fresh_wait"
            ELSE /\ pc' = "create"
                 /\ UNCHANGED << sleep_time, wait_t >>
    /\ exc' = "none"
    /\ UNCHANGED << disk, registry, conj_lock, stop_event, pj_archive, cdata,
                    run_pj, readers, next_dir, crashes, handler >>

\* A wait of the thread returns: the stop event was set, or the time is up
\* and the file has aged by it.
PubWaitReturns ==
    /\ pc \in WaitPcs
    /\ cd_age' = IF stop_event \/ cd_file.kind = "absent"
                 THEN cd_age
                 ELSE Min(cd_age + wait_t, AgeCap)
    /\ wait_t' = None
    /\ pc' = "loop"
    /\ UNCHANGED << cd_file, cache_dirs, locked_dirs, registry, conj_lock,
                    stop_event, pj_archive, exc, sleep_time, cdata, run_pj,
                    readers, next_dir, crashes, handler >>

\* _create_new_conj() returns, the schema assertion passes, cdata is built.
PubCreateNewConj ==
    /\ pc = "create"
    /\ next_dir <= MaxDirs
    /\ cdata' = PubConjunctionData(0, next_dir)
    /\ next_dir' = next_dir + 1
    /\ pc' = "set_lock"
    /\ UNCHANGED << disk, registry, conj_lock, stop_event, pj_archive, exc,
                    sleep_time, run_pj, wait_t, readers, crashes, handler >>

\* _create_new_conj() raises, or the schema assertion fails.
PubCreateNewConjRaises ==
    /\ pc = "create"
    /\ exc' = "create"
    /\ pc' = "except"
    /\ UNCHANGED << disk, registry, conj_lock, stop_event, pj_archive, locals,
                    readers, next_dir, crashes, handler >>

\* _set_conjunctions(cdata): 'with _conj_lock'.
PubSetAcquire ==
    /\ pc = "set_lock"
    /\ conj_lock = NoHolder
    /\ conj_lock' = WorkerId
    /\ pc' = "set_conj"
    /\ UNCHANGED << disk, registry, stop_event, pj_archive, exc, locals,
                    readers, next_dir, crashes, handler >>

\* '_conj = new_conj', and the lock is released.
PubSetConj ==
    /\ pc = "set_conj"
    /\ conj' = cdata
    /\ conj_lock' = NoHolder
    /\ pc' = "open"
    /\ UNCHANGED << disk, pj, stop_event, pj_archive, exc, locals, readers,
                    next_dir, crashes, handler >>

\* open(_conj_path, "wb"): truncates the file, or raises leaving it as it
\* was.  The exception goes to the except clause of the loop.
PubOpenCd ==
    /\ pc = "open"
    /\ \/ /\ cd_file' = PubPartialFile
          /\ cd_age' = 0
          /\ pc' = "dump"
          /\ UNCHANGED exc
       \/ /\ exc' = "persist"
          /\ pc' = "except"
          /\ UNCHANGED << cd_file, cd_age >>
    /\ UNCHANGED << cache_dirs, locked_dirs, registry, conj_lock, stop_event,
                    pj_archive, locals, readers, next_dir, crashes, handler >>

\* pickle.dump(cdata, f): the file is complete, then wait(MAX_AGE); or the
\* write raises, the file stays as far as it was written, and the exception
\* goes to the except clause of the loop: nothing unlinks the file.
PubDumpCd ==
    /\ pc = "dump"
    /\ \/ /\ cd_file' = PubPickleOf(cdata)
          /\ cd_age' = 0
          /\ wait_t' = MAX_AGE
          /\ pc' = "post_wait"
          /\ UNCHANGED exc
       \/ /\ exc' = "persist"
          /\ pc' = "except"
          /\ UNCHANGED << cd_file, cd_age, wait_t >>
    /\ UNCHANGED << cache_dirs, locked_dirs, registry, conj_lock, stop_event,
                    pj_archive, sleep_time, cdata, run_pj, readers, next_dir,
                    crashes, handler >>

\* The except clause of the loop: log, then wait(10).
PubExcept ==
    /\ pc = "except"
    /\ wait_t' = RETRY_DELAY
    /\ pc' = "retry_wait"
    /\ UNCHANGED << disk, registry, conj_lock, stop_event, pj_archive, exc,
                    sleep_time, cdata, run_pj, readers, next_dir, crashes,
                    handler >>

\* _data_processor._stop()
PubStop ==
    /\ pc \notin {"init_setup", "import_failed"}
    /\ ~stop_event
    /\ stop_event' = TRUE
    /\ UNCHANGED << disk, registry, conj_lock, pj_archive, pc, exc, locals,
                    readers, next_dir, crashes, handler >>

\* Time passes before a freshness test.
PubTick ==
    /\ pc = "loop"
    /\ cd_file.kind # "absent"
    /\ \E a \in {1, MAX_AGE - 1, MAX_AGE, AgeCap} :
         /\ a > cd_age
         /\ cd_age' = a
    /\ UNCHANGED << cd_file, cache_dirs, locked_dirs, registry, conj_lock,
                    stop_event, pj_archive, pc, exc, locals, readers, next_dir,
                    crashes, handler >>

\* The process is killed and started again: the disk stays, memory is lost.
PubCrash ==
    /\ crashes < MaxCrashes
    /\ crashes' = crashes + 1
    /\ conj' = PubEmptyConj
    /\ conj_lock' = NoHolder
    /\ stop_event' = FALSE
    /\ pc' = "init_setup"
    /\ exc' = "none"
    /\ sleep_time' = None
    /\ cdata' = PubEmptyConj
    /\ wait_t' = None
    /\ rpc' = [r \in Readers |-> "idle"]
    /\ held' = [r \in Readers |-> PubNoHeld]
    /\ UNCHANGED << pub_unused, cd_file, cd_age, next_dir, handler >>

PubNext ==
    \/ PubConjInitSetup
    \/ \E r \in Readers : PubGetAcquire(r)
    \/ \E r \in Readers : PubGetReturn(r)
    \/ \E r \in Readers : PubHandlerReturn(r)
    \/ PubLoopEntry
    \/ PubWaitReturns
    \/ PubCreateNewConj
    \/ PubCreateNewConjRaises
    \/ PubSetAcquire
    \/ PubSetConj
    \/ PubOpenCd
    \/ PubDumpCd
    \/ PubExcept
    \/ PubStop
    \/ PubTick
    \/ PubCrash

PubSpec == PubInit /\ [][PubNext]_vars

\* C34: in the earlier worker too, whenever the thread is in one of its
\* waits a file at _conj_path, if there is one, holds the data _conj holds,
\* and after a write of the file that failed there is no file at _conj_path.
C34_PublicWorkerConsistency ==
    /\ ( pc \in WaitPcs /\ cd_file.kind # "absent" )
          => cd_file = PubPickleOf(conj)
    /\ ( exc = "persist" /\ pc \in {"except", "retry_wait"} )
          => cd_file.kind = "absent"

\* ------------------------------------------------------------------------
\* The request handler of socrates_comparison: the validation of the body
\* (_request_models.py) and get_conjunctions() (__init__.py), on the pair
\* one call of _get_conjunctions() returns.  ReqSpec keeps the data
\* processor still and runs requests one after the other.
\* ------------------------------------------------------------------------

\* Bounds of the requests tried.
MaxFilters == 2
MaxSorting == 2

\* nrows: int = Field(..., ge=0, le=500)
MaxNrows == 500

\* The columns with range-based filtering, and their filter functions.
RangeCols ==
    {"dca", "relative_speed", "tca_diff", "dca_diff", "relative_speed_diff"}

range_filter_fns == {"greaterThan", "lessThan", "between", "betweenInclusive"}

\* A filter value (range_based_fv): a string, or a list of two elements,
\* each a string or null.
StrValue(s) == [kind |-> "str", s |-> s, l |-> << >>]
ListValue(a, b) == [kind |-> "list", s |-> "", l |-> << a, b >>]

\* A null element of a list value.
NoneElt == "null"

\* The filters, sorting criteria and filter functions the requests tried
\* are made of.
SampleFilters ==
    { [id |-> "norad_ids", value |-> StrValue(s)] : s \in {"1", "-1", "x"} }
        \cup { [id |-> c, value |-> v] :
                 c \in {"dca", "relative_speed_diff"},
                 v \in {StrValue("1"), ListValue("0", "2")} }
        \cup { [id |-> "dca", value |-> StrValue("x")],
               [id |-> "dca", value |-> ListValue("0", NoneElt)] }

SampleSorting ==
    { [id |-> "dca", desc |-> FALSE], [id |-> "tca", desc |-> TRUE] }

SampleFilterFns == { [c \in RangeCols |-> f] : f \in range_filter_fns }

SeqsUpTo(S, n) == UNION { [1 .. k -> S] : k \in 0 .. n }

\* The bodies tried: instances of the model 'request' before its checks.
Requests ==
    [ begin : {0, 1},
      nrows : {0, 1, MaxNrows, MaxNrows + 1},
      sorting : SeqsUpTo(SampleSorting, MaxSorting),
      filter_fns : SampleFilterFns,
      filters : SeqsUpTo(SampleFilters, MaxFilters) ]

\* The constraints of the fields begin and nrows.
FieldsOk(p) == p.begin >= 0 /\ p.nrows >= 0 /\ p.nrows <= MaxNrows

\* Mutant of check_unique_filter_ids: the check is missing.
check_unique_filter_ids_missing(p) == TRUE

\* len(set(id_list)) == len(id_list) for the ids of 'filters'.
check_unique_filter_ids(p) ==
    Cardinality({ p.filters[i].id : i \in 1 .. Len(p.filters) })
        = Len(p.filters)

\* Mutant of check_filters_consistency: the check is missing.
check_filters_consistency_missing(p) == TRUE

\* For every range-based filter: a list value under 'between' and
\* 'betweenInclusive', a string value under the other functions.
check_filters_consistency(p) ==
    \A i \in 1 .. Len(p.filters) :
        LET flt == p.filters[i] IN
        flt.id \in RangeCols
           => LET cur_flt_fn == p.filter_fns[flt.id] IN
              IF cur_flt_fn \in {"between", "betweenInclusive"}
              THEN flt.value.kind = "list"
              ELSE flt.value.kind = "str"

\* len(set(id_list)) == len(id_list) for the ids of 'sorting'.
check_unique_sorting(p) ==
    Cardinality({ p.sorting[i].id : i \in 1 .. Len(p.sorting) })
        = Len(p.sorting)

\* The body is accepted.
Validates(p) ==
    /\ FieldsOk(p)
    /\ check_unique_filter_ids(p)
    /\ check_filters_consistency(p)
    /\ check_unique_sorting(p)

\* The rows of the dataframe df of a conjunction_data: none in the empty
\* dataframe, three in the computed one (of the columns, those the requests
\* tried filter and sort on).
DfRows(df) ==
    IF df = 0
    THEN << >>
    ELSE << [norad_id_i |-> 1, norad_id_j |-> 2, tca |-> 3, dca |-> 1,
             relative_speed_diff |-> 2],
            [norad_id_i |-> 1, norad_id_j |-> 3, tca |-> 1, dca |-> 2,
             relative_speed_diff |-> 0],
            [norad_id_i |-> 2, norad_id_j |-> 3, tca |-> 2, dca |-> 1,
             relative_speed_diff |-> 1] >>

\* int(s) and float(s) on the strings tried: the number, or an exception.
PyInt(s) ==
    CASE s = "0" -> [ok |-> TRUE, v |-> 0]
      [] s = "1" -> [ok |-> TRUE, v |-> 1]
      [] s = "2" -> [ok |-> TRUE, v |-> 2]
      [] s = "-1" -> [ok |-> TRUE, v |-> -1]
      [] OTHER -> [ok |-> FALSE, v |-> 0]

PyFloat(s) == IF s = NoneElt THEN [ok |-> FALSE, v |-> 0] ELSE PyInt(s)

\* The expressions one filter adds to 'filters' in get_conjunctions(); none
\* if its value cannot be converted ('continue'); 'raised' if one of the
\* two assertions on the filter function fails.
FilterExprs(p, flt) ==
    LET none == [raised |-> FALSE, exprs |-> << >>]
        some(e) == [raised |-> FALSE, exprs |-> e]
        filter_f == p.filter_fns[flt.id]
    IN
    IF flt.id = "norad_ids"
    THEN LET norad_id == PyInt(flt.value.s) IN
         IF ~norad_id.ok \/ norad_id.v < 0
         THEN none
         ELSE some(<< [col |-> "norad_ids", op |-> "==", v |-> norad_id.v] >>)
    ELSE IF flt.value.kind = "list"
    THEN LET lo == PyFloat(flt.value.l[1])
             hi == PyFloat(flt.value.l[2])
         IN  IF ~lo.ok \/ ~hi.ok
             THEN none
             ELSE IF filter_f = "between"
             THEN some(<< [col |-> flt.id, op |-> ">", v |-> lo.v],
                          [col |-> flt.id, op |-> "<", v |-> hi.v] >>)
             ELSE IF filter_f = "betweenInclusive"
             THEN some(<< [col |-> flt.id, op |-> ">=", v |-> lo.v],
                          [col |-> flt.id, op |-> "<=", v |-> hi.v] >>)
             ELSE [raised |-> TRUE, exprs |-> << >>]
    ELSE LET value == PyFloat(flt.value.s) IN
         IF ~value.ok
         THEN none
         ELSE IF filter_f = "greaterThan"
         THEN some(<< [col |-> flt.id, op |-> ">", v |-> value.v] >>)
         ELSE IF filter_f = "lessThan"
         THEN some(<< [col |-> flt.id, op |-> "<", v |-> value.v] >>)
         ELSE [raised |-> TRUE, exprs |-> << >>]

\* The loop over params.filters, from the i-th filter on.
RECURSIVE CollectFilters(_, _)
CollectFilters(p, i) ==
    IF i > Len(p.filters)
    THEN [raised |-> FALSE, exprs |-> << >>]
    ELSE LET cur == FilterExprs(p, p.filters[i])
             rest == CollectFilters(p, i + 1)
         IN  IF cur.raised \/ rest.raised
             THEN [raised |-> TRUE, exprs |-> << >>]
             ELSE [raised |-> FALSE, exprs |-> cur.exprs \o rest.exprs]

\* A row satisfies one expression.
ExprHolds(row, e) ==
    CASE e.op = "==" -> row.norad_id_i = e.v \/ row.norad_id_j = e.v
      [] e.op = ">" -> row[e.col] > e.v
      [] e.op = "<" -> row[e.col] < e.v
      [] e.op = ">=" -> row[e.col] >= e.v
      [] e.op = "<=" -> row[e.col] <= e.v

\* df.filter(*filters): the rows that satisfy every expression, in order.
FilterRows(rows, exprs) ==
    LET keep(row) == \A k \in 1 .. Len(exprs) : ExprHolds(row, exprs[k])
    IN  SelectSeq(rows, keep)

\* Row a comes strictly before row b under the sorting criteria from the
\* k-th on.
RECURSIVE RowBefore(_, _, _, _)
RowBefore(a, b, sorting, k) ==
    IF k > Len(sorting)
    THEN FALSE
    ELSE LET c == sorting[k].id IN
         IF a[c] = b[c]
         THEN RowBefore(a, b, sorting, k + 1)
         ELSE IF sorting[k].desc THEN a[c] > b[c] ELSE a[c] < b[c]

\* The results df.sort(by=sort_cols, descending=desc) can give: the
\* arrangements of the rows in which no row comes after one it is strictly
\* before (the sort does not maintain the order of equal rows).  Without
\* sorting criteria the dataframe is left as it is.
SortResults(rows, sorting) ==
    IF sorting = << >>
    THEN { rows }
    ELSE LET n == Len(rows)
             perms == { f \in [1 .. n -> 1 .. n] :
                          \A i, j \in 1 .. n : f[i] = f[j] => i = j }
             arrange(f) == [i \in 1 .. n |-> rows[f[i]]]
         IN  { arrange(f) : f \in { g \in perms :
                 \A i, j \in 1 .. n :
                    i < j => ~RowBefore(rows[g[j]], rows[g[i]], sorting, 1) } }

\* df[begin : begin + nrows]
SliceRows(rows, begin, nrows) ==
    SubSeq(rows, begin + 1, Min(begin + nrows, Len(rows)))

\* The fields of the dataclass conjunction_data of socrates_comparison.
ConjunctionDataFields ==
    {"version", "df", "n_missed_conj", "timestamp", "comp_time",
     "date_begin", "date_end", "pj_dir_name", "norad_ids"}

\* The attributes of cdata the handler reads to build 'ret'.
RetAttributes ==
    {"threshold", "timestamp", "comp_time", "n_missed_conj", "date_begin",
     "date_end"}

\* The state of the data processor while the requests run: it has published
\* the pair (c, b) and is waiting.
ReqWorker(c, b) ==
    /\ cd_file = IF b = None THEN NoFile ELSE PickleOf(c)
    /\ cd_age = IF b = None THEN 0 ELSE 1
    /\ cache_dirs = IF b = None THEN {} ELSE {b}
    /\ locked_dirs = {}
    /\ conj = c
    /\ pj = b
    /\ conj_lock = NoHolder
    /\ stop_event = FALSE
    /\ pj_archive = IF b = None THEN << >> ELSE << [wr |-> b, path |-> b] >>
    /\ pc = IF b = None THEN "retry_wait" ELSE "fresh_wait"
    /\ exc = IF b = None THEN "create" ELSE "none"
    /\ sleep_time = IF b = None THEN None ELSE MAX_AGE - 1
    /\ cdata = EmptyConj
    /\ run_pj = None
    /\ wait_t = IF b = None THEN RETRY_DELAY ELSE MAX_AGE - 1
    /\ rpc = [r \in Readers |-> "idle"]
    /\ held = [r \in Readers |-> NoHeld]
    /\ next_dir = 2
    /\ crashes = 0

ReqInit ==
    /\ \/ ReqWorker(EmptyConj, None)
       \/ ReqWorker(conjunction_data(cd_cur_version, 1, 1), 1)
    /\ params = NoRequest
    /\ ret = NoResponse

worker == << cd_file, cd_age, cache_dirs, locked_dirs, conj, pj, conj_lock,
             stop_event, pj_archive, pc, exc, sleep_time, cdata, run_pj,
             wait_t, rpc, held, next_dir, crashes >>

\* A request arrives.
Receive ==
    /\ params = NoRequest
    /\ \E p \in Requests : params' = p
    /\ UNCHANGED << worker, ret >>

\* The body fails the validation of the model: status 422, the handler is
\* not called.
ValidationError ==
    /\ params # NoRequest
    /\ ret = NoResponse
    /\ ~Validates(params)
    /\ ret' = Response(422, "ValidationError", << >>, 0)
    /\ UNCHANGED << worker, params >>

\* get_conjunctions(params): one _get_conjunctions(), the filters, the
\* sort, the slice, then the dict 'ret', whose construction reads the
\* attributes of cdata.
get_conjunctions ==
    /\ params # NoRequest
    /\ ret = NoResponse
    /\ Validates(params)
    /\ LET cd == conj
           filters == CollectFilters(params, 1)
           df == FilterRows(DfRows(cd.df), filters.exprs)
       IN  IF filters.raised
           THEN ret' = Response(500, "AssertionError", << >>, 0)
           ELSE \E sorted \in SortResults(df, params.sorting) :
                  LET sub_df == SliceRows(sorted, params.begin, params.nrows)
                  IN  IF RetAttributes \subseteq ConjunctionDataFields
                      THEN ret' = Response(200, "", sub_df, Len(df))
                      ELSE ret' = Response(500, "AttributeError", << >>, 0)
    /\ UNCHANGED << worker, params >>

\* The answer is sent; the next request can come.
Reply ==
    /\ ret # NoResponse
    /\ params' = NoRequest
    /\ ret' = NoResponse
    /\ UNCHANGED worker

ReqNext ==
    \/ Receive
    \/ ValidationError
    \/ get_conjunctions
    \/ Reply

ReqSpec == ReqInit /\ [][ReqNext]_vars

\* Two entries of a sequence of filters or sorting criteria have the same id.
HasDuplicateId(seq) ==
    \E i, j \in 1 .. Len(seq) : i # j /\ seq[i].id = seq[j].id

\* C35: a body in which two entries of 'filters' have the same id, or two
\* entries of 'sorting' have the same id, is rejected; a body whose ids are
\* pairwise distinct passes check_unique_filter_ids and check_unique_sorting.
C35_UniqueIds ==
    ret # NoResponse
       => /\ ( HasDuplicateId(params.filters) \/ HasDuplicateId(params.sorting) )
                => ret.status = 422
          /\ ( ~HasDuplicateId(params.filters) /\ ~HasDuplicateId(params.sorting) )
                => /\ check_unique_filter_ids(params)
                   /\ check_unique_sorting(params)

\* A body was rejected for two filters on the same column only.
C35_Witness ==
    /\ ret.status = 422
    /\ HasDuplicateId(params.filters)
    /\ ~HasDuplicateId(params.sorting)
    /\ FieldsOk(params)
    /\ check_filters_consistency(params)

\* The i-th filter of the body is on a range-filtered column and the shape
\* of its value does not go with the filter function selected for the
\* column.
ShapeMismatch(p, i) ==
    LET flt == p.filters[i] IN
    /\ flt.id \in RangeCols
    /\ ~ /\ flt.value.kind = "list"
              <=> p.filter_fns[flt.id] \in {"between", "betweenInclusive"}
         /\ flt.value.kind = "str"
              <=> p.filter_fns[flt.id] \in {"greaterThan", "lessThan"}

\* C36: for every range-filtered column the value of the filter is a list
\* exactly when the function selected for the column is 'between' or
\* 'betweenInclusive' and a string exactly when it is 'greaterThan' or
\* 'lessThan'; a body with any other combination is rejected, and the range
\* branch of the handler never fails an assertion on the filter function.
C36_FilterShapes ==
    ret # NoResponse
       => /\ ( \E i \in 1 .. Len(params.filters) : ShapeMismatch(params, i) )
                => ret.status = 422
          /\ ret.status # 422
                => \A i \in 1 .. Len(params.filters) : ~ShapeMismatch(params, i)
          /\ ret.error # "AssertionError"

\* A body was rejected only because a string value came with 'between'.
C36_Witness ==
    /\ ret.status = 422
    /\ FieldsOk(params)
    /\ check_unique_filter_ids(params)
    /\ check_unique_sorting(params)
    /\ \E i \in 1 .. Len(params.filters) :
          /\ ShapeMismatch(params, i)
          /\ params.filters[i].value.kind = "str"
          /\ params.filter_fns[params.filters[i].id] = "between"

\* The value of a filter can be converted: a non-negative integer for
\* norad_ids, numbers for the bounds of a range.
Convertible(flt) ==
    IF flt.id = "norad_ids"
    THEN flt.value.s \in {"0", "1", "2"}
    ELSE IF flt.value.kind = "list"
    THEN \A k \in 1 .. 2 : flt.value.l[k] \in {"-1", "0", "1", "2"}
    ELSE flt.value.s \in {"-1", "0", "1", "2"}

\* A row passes a filter whose value can be converted, under the filter
\* function selected for its column.
RowPasses(row, p, flt) ==
    IF flt.id = "norad_ids"
    THEN PyInt(flt.value.s).v \in {row.norad_id_i, row.norad_id_j}
    ELSE LET f == p.filter_fns[flt.id]
             x == row[flt.id]
         IN  CASE f = "between" ->
                    PyInt(flt.value.l[1]).v < x /\ x < PyInt(flt.value.l[2]).v
               [] f = "betweenInclusive" ->
                    PyInt(flt.value.l[1]).v <= x /\ x <= PyInt(flt.value.l[2]).v
               [] f = "greaterThan" -> x > PyInt(flt.value.s).v
               [] f = "lessThan" -> x < PyInt(flt.value.s).v

\* The rows of the published dataframe that pass every filter of the body
\* whose value can be converted.
PassingRows(p) ==
    LET passes(row) ==
            \A i \in 1 .. Len(p.filters) :
                Convertible(p.filters[i]) => RowPasses(row, p, p.filters[i])
    IN  SelectSeq(DfRows(conj.df), passes)

\* C37: for the data one _get_conjunctions() returned, the handler answers
\* an accepted body with the rows at positions [begin, begin + nrows) of the
\* filtered and sorted dataframe (at most nrows, nrows <= 500) and with
\* tot_nrows the number of rows that pass all the applied filters; a filter
\* whose value cannot be converted is ignored without error.
C37_ResultShape ==
    ( ret # NoResponse /\ ret.status # 422 )
       => /\ ret.status = 200
          /\ \E sorted \in SortResults(PassingRows(params), params.sorting) :
                ret.rows = SliceRows(sorted, params.begin, params.nrows)
          /\ Len(ret.rows) <= params.nrows
          /\ params.nrows <= MaxNrows
          /\ ret.tot_nrows = Len(PassingRows(params))

====
